---- MODULE Spec2Model ----
(***************************************************************************)
(* Model of dcStats/brightnessStats.py: the class `brightness`, a          *)
(* datacube-stats Statistic that reduces the four-band brightness index    *)
(* sqrt(b1^2 + b2^2 + b3^2 + b4^2) over time.                               *)
(*                                                                         *)
(* Strings built by '_'.join are sequences of tokens.  Array elements are  *)
(* integers (band values) or rationals [num, den] (index and statistics),  *)
(* not-a-number being 0/0.  An int16 array keeps its width.                *)
(***************************************************************************)
EXTENDS Integers, Sequences, FiniteSets, TLC

VARIABLES args, self, chunk, pc, nd, outputs, i, ret, first

vars == <<args, self, chunk, pc, nd, outputs, i, ret, first>>

(***************************************************************************)
(* Bounds of the model.                                                    *)
(***************************************************************************)
MaxStats == 2
MaxT == 2
NumWorkers == 2

Workers == 1..NumWorkers

(***************************************************************************)
(* Element arithmetic of the array library.                                *)
(***************************************************************************)
\* two's-complement wrap of an int16 result
Wrap16(x) == ((x + 32768) % 65536) - 32768

IsInt(dtype) == dtype = "int16"

NaN == [num |-> 0, den |-> 0]

IsNaN(v) == v.den = 0

Rat(n) == [num |-> n, den |-> 1]

RECURSIVE GCD(_, _)
GCD(a, b) == IF b = 0 THEN a ELSE GCD(b, a % b)

Norm(n, d) == LET g == GCD(n, d) IN IF g = 0 THEN NaN ELSE [num |-> n \div g, den |-> d \div g]

\* a ** 2 elementwise: an int16 array stays int16 and wraps
Square(dtype, v) == IF IsInt(dtype) THEN Wrap16(v * v) ELSE v * v

\* a + b elementwise, same dtype on both sides
Add(dtype, a, b) == IF IsInt(dtype) THEN Wrap16(a + b) ELSE a + b

\* result element type of  array ** (1/2.0): a float32 array stays float32,
\* an integer or float64 array gives float64
PowHalfDtype(dtype) == IF dtype = "float32" THEN "float32" ELSE "float64"

\* v ** (1/2.0): not-a-number for a negative radicand; the radicands the
\* sample inputs produce are perfect squares, whose root is exact
PowHalf(v) == IF v < 0 THEN NaN ELSE Rat(CHOOSE r \in 0..v : r * r = v)

(***************************************************************************)
(* Reductions of a DataArray along dim='time' (skipna is the default for   *)
(* a floating-point array: not-a-number entries are left out).             *)
(***************************************************************************)
Reductions == {"min", "max", "mean"}

RECURSIVE SumSeq(_)
SumSeq(s) == IF Len(s) = 0 THEN 0 ELSE s[1] + SumSeq(Tail(s))

\* the values of one spatial cell over time, not-a-number entries dropped
Column(values, c) == SelectSeq([t \in 1..Len(values) |-> values[t][c]], LAMBDA v : ~IsNaN(v))

\* min, max, mean are called on integer-valued columns (den = 1)
ReduceCell(col, stat) ==
    IF Len(col) = 0 THEN NaN
    ELSE LET nums == {col[t].num : t \in 1..Len(col)}
         IN CASE stat = "min" -> Rat(CHOOSE m \in nums : \A n \in nums : m <= n)
              [] stat = "max" -> Rat(CHOOSE m \in nums : \A n \in nums : m >= n)
              [] stat = "mean" -> Norm(SumSeq([t \in 1..Len(col) |-> col[t].num]), Len(col))

\* getattr(nd, stat)(dim='time', keep_attrs=True) for stat a reduction
Reduce(arr, stat) ==
    [dtype |-> arr.dtype,
     dims |-> SelectSeq(arr.dims, LAMBDA d : d # "time"),
     values |-> [c \in 1..Len(arr.values[1]) |-> ReduceCell(Column(arr.values, c), stat)]]

(***************************************************************************)
(* Strings and dictionaries.                                               *)
(***************************************************************************)
RECURSIVE join(_, _)
join(sep, parts) ==
    IF Len(parts) = 0 THEN <<>>
    ELSE IF Len(parts) = 1 THEN <<parts[1]>>
    ELSE <<parts[1], sep>> \o join(sep, Tail(parts))

EmptyDict == [k \in {} |-> 0]

\* d[k] = v
SetItem(d, k, v) == [x \in DOMAIN d \cup {k} |-> IF x = k THEN v ELSE d[x]]

(***************************************************************************)
(* Datasets, measurements and call outcomes.                               *)
(***************************************************************************)
\* xarray.Dataset(data_vars, attrs=...)
Dataset(data_vars, attrs) == [data_vars |-> data_vars, attrs |-> attrs]

EmptyDataset == Dataset(EmptyDict, {})

HasAttr(data, k) == \E p \in data.attrs : p[1] = k

\* data.<k>: attribute-style access to data.attrs[k]
GetAttr(data, k) == (CHOOSE p \in data.attrs : p[1] = k)[2]

\* datacube.model.Measurement(name=..., dtype=..., nodata=..., units=...)
Measurement(name, dtype, nodata, units) ==
    [name |-> name, dtype |-> dtype, nodata |-> nodata, units |-> units]

NoCall == [call |-> "none", outcome |-> "none", exc |-> "none", dataset |-> EmptyDataset, list |-> <<>>]

Returns(call, dataset, list) ==
    [call |-> call, outcome |-> "return", exc |-> "none", dataset |-> dataset, list |-> list]

Raises(call, exc) ==
    [call |-> call, outcome |-> "raise", exc |-> exc, dataset |-> EmptyDataset, list |-> <<>>]

(***************************************************************************)
(* class brightness                                                        *)
(***************************************************************************)
None == [given |-> FALSE, list |-> <<>>]

List(l) == [given |-> TRUE, list |-> l]

\* truth value of the stats argument: None and the empty list are false
Truthy(a) == a.given /\ Len(a.list) > 0

Unconstructed ==
    [constructed |-> FALSE, band1 |-> "", band2 |-> "", band3 |-> "", band4 |-> "",
     name |-> "", stats |-> <<>>]

\* mutant of init: the default statistics in another order
init_defaultOrder(a) ==
    [constructed |-> TRUE,
     stats |-> IF Truthy(a.stats) THEN a.stats.list ELSE <<"min", "mean", "max">>,
     band1 |-> a.band1, band2 |-> a.band2, band3 |-> a.band3, band4 |-> a.band4,
     name |-> a.name]

\* mutant of init: `stats if stats is not None else [...]`
init_isNotNone(a) ==
    [constructed |-> TRUE,
     stats |-> IF a.stats.given THEN a.stats.list ELSE <<"min", "max", "mean">>,
     band1 |-> a.band1, band2 |-> a.band2, band3 |-> a.band3, band4 |-> a.band4,
     name |-> a.name]

\* __init__(self, band1, band2, band3, band4, name, stats=None)
init(a) ==
    [constructed |-> TRUE,
     stats |-> IF Truthy(a.stats) THEN a.stats.list ELSE <<"min", "max", "mean">>,
     band1 |-> a.band1, band2 |-> a.band2, band3 |-> a.band3, band4 |-> a.band4,
     name |-> a.name]

Bands(obj) == <<obj.band1, obj.band2, obj.band3, obj.band4>>

\* data[band] succeeds for each configured band
HasBands(obj, data) == \A k \in 1..4 : Bands(obj)[k] \in DOMAIN data.data_vars

\* (data[b1]**2 + data[b2]**2 + data[b3]**2 + data[b4]**2)**(1/2.0)
Index(obj, data) ==
    LET b(k) == data.data_vars[Bands(obj)[k]]
        dt == b(1).dtype
        sq(k, t, c) == Square(dt, b(k).values[t][c])
        sum(t, c) == Add(dt, Add(dt, Add(dt, sq(1, t, c), sq(2, t, c)), sq(3, t, c)), sq(4, t, c))
    IN [dtype |-> PowHalfDtype(dt),
        dims |-> b(1).dims,
        values |-> [t \in 1..Len(b(1).values) |->
                       [c \in 1..Len(b(1).values[t]) |-> PowHalf(sum(t, c))]]]

\* name = '_'.join([self.name, stat])
LayerName(obj, stat) == join("_", <<obj.name, stat>>)

\* for stat in stats: outputs[name] = getattr(nd, stat)(dim='time', keep_attrs=True)
RECURSIVE ComputeLoop(_, _, _, _)
ComputeLoop(obj, arr, stats, out) ==
    IF Len(stats) = 0 THEN [exc |-> "none", outputs |-> out]
    ELSE IF Head(stats) \notin Reductions THEN [exc |-> "AttributeError", outputs |-> out]
    ELSE ComputeLoop(obj, arr, Tail(stats),
                     SetItem(out, LayerName(obj, Head(stats)), Reduce(arr, Head(stats))))

\* compute(self, data), run from start to end by one caller
compute(obj, data) ==
    IF ~HasBands(obj, data) THEN Raises("compute", "KeyError")
    ELSE LET r == ComputeLoop(obj, Index(obj, data), obj.stats, EmptyDict)
         IN IF r.exc # "none" THEN Raises("compute", r.exc)
            ELSE IF ~HasAttr(data, "crs") THEN Raises("compute", "AttributeError")
            ELSE Returns("compute", Dataset(r.outputs, {<<"crs", GetAttr(data, "crs")>>}), <<>>)

\* mutant of measurements: one descriptor per input measurement
measurements_perInput(obj, input_measurements) ==
    Returns("measurements", EmptyDataset,
            [k \in 1..Len(input_measurements) |->
                Measurement(LayerName(obj, obj.stats[k]), "float32", NaN, "1")])

\* measurements(self, input_measurements)
measurements(obj, input_measurements) ==
    Returns("measurements", EmptyDataset,
            [k \in 1..Len(obj.stats) |->
                Measurement(LayerName(obj, obj.stats[k]), "float32", NaN, "1")])

(***************************************************************************)
(* Sample inputs.                                                          *)
(***************************************************************************)
SeqsUpTo(S, n) == UNION {[1..k -> S] : k \in 0..n}

StatNames == Reductions \cup {"bogus"}

BandNames == <<"green", "red", "nir", "swir1">>

\* one pixel: the values of the four bands, in the order of BandNames
SamplePixels == <<<<1, 1, 1, 1>>, <<2, 2, 2, 2>>, <<3, 3, 3, 3>>, <<200, 0, 0, 0>>>>

\* one time step of a 1 x 2 grid
SampleFrames ==
    {<<SamplePixels[1], SamplePixels[3]>>,
     <<SamplePixels[2], SamplePixels[4]>>}

Dtypes == {"int16", "float32", "float64"}

CrsValues == {"EPSG:3577", "EPSG:4326"}

BandIdx(b) == CHOOSE k \in 1..4 : BandNames[k] = b

MkChunk(dtype, attrs, names, series) ==
    Dataset([b \in names |->
                [dtype |-> dtype,
                 dims |-> <<"time", "y", "x">>,
                 values |-> [t \in 1..Len(series) |->
                               [c \in 1..Len(series[t]) |-> series[t][c][BandIdx(b)]]]]],
            attrs)

AllBands == {BandNames[k] : k \in 1..4}

Series == SeqsUpTo(SampleFrames, MaxT) \ {<<>>}

WellFormedChunks ==
    {MkChunk(dt, {<<"crs", crs>>}, AllBands, s) : dt \in Dtypes, crs \in CrsValues, s \in Series}

\* a chunk without the swir1 band, and a chunk without the crs attribute
MalformedChunks ==
    {MkChunk("float32", {<<"crs", "EPSG:3577">>}, AllBands \ {"swir1"}, <<CHOOSE f \in SampleFrames : TRUE>>),
     MkChunk("float32", {}, AllBands, <<CHOOSE f \in SampleFrames : TRUE>>)}

Chunks == WellFormedChunks \cup MalformedChunks

InputMeasurements == {<<>>, <<Measurement(<<"green">>, "int16", Rat(-999), "1")>>}

MkArgs(stats) ==
    [band1 |-> BandNames[1], band2 |-> BandNames[2], band3 |-> BandNames[3],
     band4 |-> BandNames[4], name |-> "brightness", stats |-> stats]

ArgSets == {MkArgs(None)} \cup {MkArgs(List(l)) : l \in SeqsUpTo(StatNames, MaxStats)}

\* the concurrent specification draws from fewer configurations and chunks
ConcArgSets == {MkArgs(None), MkArgs(List(<<"mean", "mean">>)), MkArgs(List(<<"max", "bogus">>))}

ConcChunks ==
    {MkChunk("float32", {<<"crs", "EPSG:3577">>}, AllBands,
             <<<<SamplePixels[1], SamplePixels[3]>>, <<SamplePixels[2], SamplePixels[4]>>>>),
     MkChunk("int16", {<<"crs", "EPSG:4326">>}, AllBands,
             <<<<SamplePixels[2], SamplePixels[4]>>>>)}

(***************************************************************************)
(* State machine.  One shared object `self`; each worker holds its own     *)
(* chunk and runs compute line by line with its own locals nd, outputs     *)
(* and loop position i.  `first` records the first compute outcome on the  *)
(* worker's current chunk.                                                 *)
(***************************************************************************)
NoArray == [dtype |-> "", dims |-> <<>>, values |-> <<>>]

NoFirst == [set |-> FALSE, result |-> NoCall]

InitWith(A) ==
    /\ args \in A
    /\ self = Unconstructed
    /\ chunk = [w \in Workers |-> EmptyDataset]
    /\ pc = [w \in Workers |-> "idle"]
    /\ nd = [w \in Workers |-> NoArray]
    /\ outputs = [w \in Workers |-> EmptyDict]
    /\ i = [w \in Workers |-> 0]
    /\ ret = [w \in Workers |-> NoCall]
    /\ first = [w \in Workers |-> NoFirst]

Init == InitWith(ArgSets)

InitConc == InitWith(ConcArgSets)

\* brightness(band1, band2, band3, band4, name, stats)
Construct ==
    /\ ~self.constructed
    /\ self' = init(args)
    /\ UNCHANGED <<args, chunk, pc, nd, outputs, i, ret, first>>

\* the orchestrator hands worker w its next chunk
LoadFrom(w, S) ==
    /\ pc[w] = "idle"
    /\ \E d \in S : chunk' = [chunk EXCEPT ![w] = d]
    /\ first' = [first EXCEPT ![w] = NoFirst]
    /\ ret' = [ret EXCEPT ![w] = NoCall]
    /\ UNCHANGED <<args, self, pc, nd, outputs, i>>

LoadChunk(w) == LoadFrom(w, Chunks)

LoadChunkConc(w) == LoadFrom(w, ConcChunks)

\* the end of a compute call of worker w, with outcome r: its locals die
Finish(w, r) ==
    /\ ret' = [ret EXCEPT ![w] = r]
    /\ first' = [first EXCEPT ![w] = IF first[w].set THEN first[w] ELSE [set |-> TRUE, result |-> r]]
    /\ pc' = [pc EXCEPT ![w] = "idle"]
    /\ nd' = [nd EXCEPT ![w] = NoArray]
    /\ outputs' = [outputs EXCEPT ![w] = EmptyDict]
    /\ i' = [i EXCEPT ![w] = 0]

\* worker w calls self.compute(chunk[w])
CallCompute(w) ==
    /\ self.constructed
    /\ pc[w] = "idle"
    /\ pc' = [pc EXCEPT ![w] = "line28"]
    /\ UNCHANGED <<args, self, chunk, nd, outputs, i, ret, first>>

\* mutant of Line28: the bands are squared in place, in the caller's dataset
Line28_inplace(w) ==
    /\ pc[w] = "line28"
    /\ IF ~HasBands(self, chunk[w])
       THEN /\ Finish(w, Raises("compute", "KeyError"))
            /\ UNCHANGED chunk
       ELSE /\ nd' = [nd EXCEPT ![w] = Index(self, chunk[w])]
            /\ chunk' = [chunk EXCEPT ![w].data_vars =
                            [b \in DOMAIN @ |->
                                [@[b] EXCEPT !.values =
                                    [t \in 1..Len(@) |->
                                        [c \in 1..Len(@[t]) |-> Square(chunk[w].data_vars[b].dtype, @[t][c])]]]]]
            /\ outputs' = [outputs EXCEPT ![w] = EmptyDict]
            /\ i' = [i EXCEPT ![w] = 1]
            /\ pc' = [pc EXCEPT ![w] = "loop"]
            /\ UNCHANGED <<ret, first>>
    /\ UNCHANGED <<args, self>>

\* nd = (...)**(1/2.0); outputs = {}
Line28(w) ==
    /\ pc[w] = "line28"
    /\ IF ~HasBands(self, chunk[w])
       THEN Finish(w, Raises("compute", "KeyError"))
       ELSE /\ nd' = [nd EXCEPT ![w] = Index(self, chunk[w])]
            /\ outputs' = [outputs EXCEPT ![w] = EmptyDict]
            /\ i' = [i EXCEPT ![w] = 1]
            /\ pc' = [pc EXCEPT ![w] = "loop"]
            /\ UNCHANGED <<ret, first>>
    /\ UNCHANGED <<args, self, chunk>>

\* mutant of LoopBody: a name the index does not have is skipped
LoopBody_skipUnknown(w) ==
    /\ pc[w] = "loop"
    /\ i[w] <= Len(self.stats)
    /\ LET stat == self.stats[i[w]]
       IN /\ outputs' = [outputs EXCEPT ![w] =
                            IF stat \in Reductions
                            THEN SetItem(@, LayerName(self, stat), Reduce(nd[w], stat))
                            ELSE @]
          /\ i' = [i EXCEPT ![w] = @ + 1]
          /\ UNCHANGED <<pc, nd, ret, first>>
    /\ UNCHANGED <<args, self, chunk>>

\* mutant of LoopBody: the loop consumes the shared list,
\* `while self.stats: stat = self.stats.pop(0)`
LoopBody_pop(w) ==
    /\ pc[w] = "loop"
    /\ i[w] <= Len(self.stats)
    /\ LET stat == Head(self.stats)
       IN IF stat \notin Reductions
          THEN /\ Finish(w, Raises("compute", "AttributeError"))
               /\ UNCHANGED self
          ELSE /\ outputs' = [outputs EXCEPT ![w] = SetItem(@, LayerName(self, stat), Reduce(nd[w], stat))]
               /\ self' = [self EXCEPT !.stats = Tail(@)]
               /\ UNCHANGED <<pc, nd, i, ret, first>>
    /\ UNCHANGED <<args, chunk>>

\* one iteration of  for stat in self.stats
LoopBody(w) ==
    /\ pc[w] = "loop"
    /\ i[w] <= Len(self.stats)
    /\ LET stat == self.stats[i[w]]
       IN IF stat \notin Reductions
          THEN Finish(w, Raises("compute", "AttributeError"))
          ELSE /\ outputs' = [outputs EXCEPT ![w] = SetItem(@, LayerName(self, stat), Reduce(nd[w], stat))]
               /\ i' = [i EXCEPT ![w] = @ + 1]
               /\ UNCHANGED <<pc, nd, ret, first>>
    /\ UNCHANGED <<args, self, chunk>>

\* mutant of Line33: the output is tagged with a fixed crs
Line33_fixedCrs(w) ==
    /\ pc[w] = "loop"
    /\ i[w] > Len(self.stats)
    /\ IF ~HasAttr(chunk[w], "crs")
       THEN Finish(w, Raises("compute", "AttributeError"))
       ELSE Finish(w, Returns("compute", Dataset(outputs[w], {<<"crs", "EPSG:3577">>}), <<>>))
    /\ UNCHANGED <<args, self, chunk>>

\* return xarray.Dataset(outputs, attrs=dict(crs=data.crs))
Line33(w) ==
    /\ pc[w] = "loop"
    /\ i[w] > Len(self.stats)
    /\ IF ~HasAttr(chunk[w], "crs")
       THEN Finish(w, Raises("compute", "AttributeError"))
       ELSE Finish(w, Returns("compute", Dataset(outputs[w], {<<"crs", GetAttr(chunk[w], "crs")>>}), <<>>))
    /\ UNCHANGED <<args, self, chunk>>

\* worker w calls self.measurements(im)
Measurements(w) ==
    /\ self.constructed
    /\ pc[w] = "idle"
    /\ \E im \in InputMeasurements : ret' = [ret EXCEPT ![w] = measurements(self, im)]
    /\ UNCHANGED <<args, self, chunk, pc, nd, outputs, i, first>>

\* one caller
Next ==
    \/ Construct
    \/ LoadChunk(1)
    \/ CallCompute(1)
    \/ Line28(1)
    \/ LoopBody(1)
    \/ Line33(1)
    \/ Measurements(1)

Spec == Init /\ [][Next]_vars

\* several orchestrator workers share the object
NextConc ==
    \/ Construct
    \/ \E w \in Workers : LoadChunkConc(w)
    \/ \E w \in Workers : CallCompute(w)
    \/ \E w \in Workers : Line28(w)
    \/ \E w \in Workers : LoopBody(w)
    \/ \E w \in Workers : Line33(w)
    \/ \E w \in Workers : Measurements(w)

SpecConc == InitConc /\ [][NextConc]_vars

(***************************************************************************)
(* Properties.                                                             *)
(***************************************************************************)
Returned(w) == ret[w].call = "compute" /\ ret[w].outcome = "return"

Layers(w) == ret[w].dataset.data_vars

\* the layer name '{prefix}_{statistic}'
PrefixedName(stat) == <<self.name, "_", stat>>

\* the descriptor list the documentation describes
Descriptors ==
    [k \in 1..Len(self.stats) |->
        [name |-> PrefixedName(self.stats[k]), dtype |-> "float32", nodata |-> NaN, units |-> "1"]]

\* the index of the docstring, sqrt(green^2 + red^2 + nir^2 + swir1^2), in exact arithmetic
ExactIndex(data, t, c) ==
    LET v(b) == data.data_vars[b].values[t][c]
        s == v("green") * v("green") + v("red") * v("red") + v("nir") * v("nir") + v("swir1") * v("swir1")
    IN CHOOSE r \in 0..s : r * r = s

ExactStat(data, stat, c) ==
    LET T == Len(data.data_vars["green"].values)
        xs == {ExactIndex(data, t, c) : t \in 1..T}
    IN CASE stat = "min" -> Rat(CHOOSE m \in xs : \A x \in xs : m <= x)
         [] stat = "max" -> Rat(CHOOSE m \in xs : \A x \in xs : m >= x)
         [] stat = "mean" -> Norm(SumSeq([t \in 1..T |-> ExactIndex(data, t, c)]), T)

\* C1: whenever compute returns, it returns exactly len(stats) layers,
\* measurements returns exactly len(stats) descriptors, and the layer names
\* are the descriptor names, each '{prefix}_{statistic}'.
C1_LayerCountIsLenStats ==
    Returned(1) =>
        LET descr == measurements(self, <<>>).list
        IN /\ Cardinality(DOMAIN Layers(1)) = Len(self.stats)
           /\ Len(descr) = Len(self.stats)
           /\ DOMAIN Layers(1) = {descr[k].name : k \in 1..Len(descr)}
           /\ DOMAIN Layers(1) = {PrefixedName(self.stats[k]) : k \in 1..Len(self.stats)}

\* C2: whenever compute returns, each layer '{prefix}_{stat}' holds at every
\* cell the reduction stat, over all time steps, of sqrt(b1^2+b2^2+b3^2+b4^2).
C2_LayersAreReductionsOfIndex ==
    Returned(1) =>
        \A k \in 1..Len(self.stats) :
            /\ PrefixedName(self.stats[k]) \in DOMAIN Layers(1)
            /\ LET layer == Layers(1)[PrefixedName(self.stats[k])]
               IN \A c \in 1..Len(layer.values) :
                      layer.values[c] = ExactStat(chunk[1], self.stats[k], c)

\* C3: whenever compute returns, every layer is a 2-D float32 array, the
\* element type measurements declares for it, whatever the input's type.
C3_LayersAreFloat32 ==
    Returned(1) =>
        \A n \in DOMAIN Layers(1) :
            /\ Len(Layers(1)[n].dims) = 2
            /\ Layers(1)[n].dtype = "float32"
            /\ \A k \in 1..Len(Descriptors) :
                   Descriptors[k].name = n => Layers(1)[n].dtype = Descriptors[k].dtype

HasUnknownStat(l) == \E k \in 1..Len(l) : l[k] \notin Reductions

\* C4: with a stats list holding a name that is no reduction, construction
\* succeeds and keeps the list, every compute call raises, and a raising
\* call hands back no dataset, not even the layers computed so far.
C4_UnknownStatFailsAtCompute ==
    HasUnknownStat(args.stats.list) =>
        /\ self.constructed => self.stats = args.stats.list
        /\ ret[1].call = "compute" => ret[1].outcome = "raise" /\ ret[1].dataset = EmptyDataset

C4_Witness ==
    /\ args.stats.list = <<"min", "bogus">>
    /\ chunk[1] \in WellFormedChunks
    /\ ret[1].call = "compute"
    /\ ret[1].exc = "AttributeError"

\* C5: an object built with stats=None is the object built with
\* stats=['min','max','mean'], and its compute and measurements outcomes are
\* those of that object on the same input.
C5_DefaultIsExplicitMinMaxMean ==
    (args.stats = None /\ self.constructed) =>
        LET explicit == init(MkArgs(List(<<"min", "max", "mean">>)))
        IN /\ self = explicit
           /\ ret[1].call = "compute" => ret[1] = compute(explicit, chunk[1])
           /\ ret[1].call = "measurements" => ret[1] = measurements(explicit, <<>>)

C5_Witness ==
    /\ args.stats = None
    /\ Returned(1)
    /\ Cardinality(DOMAIN Layers(1)) = 3

\* C6: no step of a compute call changes the caller's dataset, and a compute
\* call on a chunk ends with the outcome of the first compute call on it.
C6_ComputeLeavesInputAlone ==
    [][\A w \in Workers :
          /\ pc[w] # "idle" => chunk'[w] = chunk[w]
          /\ (pc[w] # "idle" /\ pc'[w] = "idle" /\ first[w].set) => ret'[w] = first[w].result]_vars

C6_Witness ==
    /\ first[1].set
    /\ first[1].result.outcome = "return"
    /\ pc[1] = "loop"
    /\ i[1] > Len(self.stats)

\* C7: with several workers interleaving compute and measurements on the
\* shared object, no step writes the configuration, and every call ends with
\* the outcome it has when run alone on the worker's chunk.
C7_SharedObjectIsReadOnly ==
    [][/\ self.constructed => self' = self
       /\ \A w \in Workers :
             /\ (pc[w] # "idle" /\ pc'[w] = "idle") => ret'[w] = compute(self, chunk[w])
             /\ ret'[w].call = "measurements" => ret'[w] = measurements(self, <<>>)]_vars

C7_Witness ==
    /\ pc[1] = "loop"
    /\ pc[2] = "loop"
    /\ i[1] > 1
    /\ i[2] > 1
    /\ chunk[1] # chunk[2]

\* C8: measurements returns, for any input_measurements, one descriptor per
\* configured statistic, in configuration order, named '{prefix}_{statistic}',
\* dtype float32, nodata not-a-number, units '1'.
C8_MeasurementsFollowStats ==
    ret[1].call = "measurements" => ret[1].outcome = "return" /\ ret[1].list = Descriptors

C8_Witness ==
    /\ ret[1].call = "measurements"
    /\ self.stats = <<"max", "bogus">>
    /\ Len(ret[1].list) = 2

\* C9: whenever compute returns, the returned dataset carries a crs attribute
\* equal to the crs attribute of the input dataset.
C9_CrsCarriedOver ==
    Returned(1) =>
        /\ HasAttr(chunk[1], "crs")
        /\ ret[1].dataset.attrs = {<<"crs", GetAttr(chunk[1], "crs")>>}

C9_Witness ==
    /\ Returned(1)
    /\ <<"crs", "EPSG:4326">> \in ret[1].dataset.attrs

\* C10: an object built with stats=[] holds the default statistics min, max,
\* mean: compute returns three layers and measurements three descriptors.
C10_EmptyListGetsDefault ==
    (args.stats = List(<<>>) /\ self.constructed) =>
        /\ self.stats = <<"min", "max", "mean">>
        /\ Returned(1) => Cardinality(DOMAIN Layers(1)) = 3
        /\ ret[1].call = "measurements" => Len(ret[1].list) = 3

C10_Witness ==
    /\ args.stats = List(<<>>)
    /\ Returned(1)
    /\ DOMAIN Layers(1) = {PrefixedName("min"), PrefixedName("max"), PrefixedName("mean")}

====
